---- MODULE Spec2Model ----
(***************************************************************************)
(* Project duplication (ProjectDuplicate.CanCreate, ProjectDuplicate.Create *)
(* and duplicateTasks) as a state machine over the database session, the   *)
(* file store and the set of open file handles.                            *)
(***************************************************************************)
EXTENDS Integers, Sequences, FiniteSets, TLC

VARIABLES
    pc,          \* position of the request: CanCreate, then the steps of Create
    err,         \* the error Create returned ("" is nil)
    failedAt,    \* the step of Create that returned the error
    gate,        \* what CanCreate consulted and returned
    ld,          \* the ProjectDuplicate struct
    db,          \* the tables as the session s sees them
    db0,         \* the committed tables (what a rollback of s restores)
    store,       \* the file store: file id -> content
    open,        \* the source file handles that are open
    bucketMap,   \* old bucket id -> new bucket id
    taskMap,     \* old task id -> new task id
    oldTaskIDs,  \* the old task ids, in listing order
    todo,        \* the rows of the loop that is running, not yet visited
    file,        \* Create's local `file`: the id of the duplicated background
    upErr        \* Create's local `err` of the attribution lookup (line 136)

vars == <<pc, err, failedAt, gate, ld, db, db0, store, open, bucketMap, taskMap,
          oldTaskIDs, todo, file, upErr>>

\* Bounds of the source projects that are explored.
MaxBuckets == 1
MaxTasks == 2
MaxAttachments == 3
MaxRelations == 2
MaxRows == 2

----------------------------------------------------------------------------
\* Helpers

Max(S) == CHOOSE x \in S : \A y \in S : y <= x

SeqsUpTo(S, k) == UNION {[1..m -> S] : m \in 0..k}

Rows(t) == {t[i] : i \in DOMAIN t}

Ids(t) == {t[i].id : i \in DOMAIN t}

\* A Go map: a lookup of a missing key yields the zero value.
EmptyMap == [k \in {} |-> 0]

MapGet(m, k) == IF k \in DOMAIN m THEN m[k] ELSE 0

MapPut(m, k, v) == [x \in DOMAIN m \cup {k} |-> IF x = k THEN v ELSE m[x]]

\* The auto-increment key of a table.
NextID(t) == 1 + Max({0} \cup Ids(t))

\* An insert assigns the row its new identity.
Insert(t, row) == Append(t, [row EXCEPT !.id = NextID(t)])

\* The acting user.
Doer == [id |-> 1]

\* Assignee-add re-checks access to the destination project: user 1 (the
\* doer) has it, every other user was removed from the target namespace.
HasAccess(user) == user = Doer.id

----------------------------------------------------------------------------
\* The source project and what surrounds it.
\*   project 1 is the source, project 2 another project;
\*   bucket 1 was deleted, bucket 2 belongs to project 2, 3.. to the source;
\*   task 1 belongs to project 2, tasks 2.. to the source;
\*   file 1 and file 3 are stored, file 2 has no metadata row.

OrigStore == (1 :> "attachment bytes") @@ (3 :> "background bytes")

ZeroProject ==
    [id |-> 0, namespace_id |-> 0, owner_id |-> 0, identifier |-> "",
     background_file_id |-> 0]

BucketRefs(nb) == {0, 1} \cup {i + 2 : i \in 1..nb}

SrcTasks(n) == {i + 1 : i \in 1..n}

AttachmentShapes(n) == [task : SrcTasks(n), file : {1, 2}]

AssigneeShapes(n) == [task : SrcTasks(n), user : {1, 2}]

RelationShapes(n) == [task : SrcTasks(n), other : {1} \cup SrcTasks(n)]

BackgroundShapes ==
    {[bg |-> 0, unsplash |-> FALSE], [bg |-> 2, unsplash |-> FALSE],
     [bg |-> 3, unsplash |-> FALSE], [bg |-> 3, unsplash |-> TRUE]}

\* The source project with the given buckets and tasks and one row in
\* every dependent table.
Base(nb, tb) ==
    LET n == Len(tb)
        first == 2
        last == n + 1
    IN  [buckets |-> nb,
         tasks |-> tb,
         attachments |-> IF n = 0 THEN <<>> ELSE <<[task |-> first, file |-> 1]>>,
         labels |-> IF n = 0 THEN <<>> ELSE <<last>>,
         assignees |-> IF n = 0 THEN <<>> ELSE <<[task |-> first, user |-> 1]>>,
         comments |-> IF n = 0 THEN <<>> ELSE <<first>>,
         relations |-> IF n = 0 THEN <<>> ELSE <<[task |-> first, other |-> last]>>,
         users |-> 1,
         teams |-> 1,
         shares |-> 1,
         background |-> [bg |-> 3, unsplash |-> TRUE]]

\* Task i of the full-size project: in its own bucket while buckets last,
\* then unbucketed, then in the deleted bucket.
FullTasks ==
    [i \in 1..MaxTasks |->
        IF i <= MaxBuckets THEN i + 2 ELSE IF i = MaxBuckets + 1 THEN 0 ELSE 1]

Full == Base(MaxBuckets, FullTasks)

\* The source projects explored: every bucket/task shape and every number
\* of user rights, team rights and link shares, each with every kind of
\* background; and the full-size project with each task-dependent table
\* varied.
ProjectShapes ==
    {Base(nb, tb) : nb \in 0..MaxBuckets, tb \in SeqsUpTo(BucketRefs(MaxBuckets), MaxTasks)}
    \cup {[Full EXCEPT !.users = k] : k \in 0..MaxRows}
    \cup {[Full EXCEPT !.teams = k] : k \in 0..MaxRows}
    \cup {[Full EXCEPT !.shares = k] : k \in 0..MaxRows}

TaskDependentShapes ==
    {[Full EXCEPT !.attachments = a] :
        a \in SeqsUpTo(AttachmentShapes(MaxTasks), MaxAttachments)}
    \cup {[Full EXCEPT !.relations = r] :
            r \in SeqsUpTo(RelationShapes(MaxTasks), MaxRelations)}
    \cup {[Full EXCEPT !.assignees = a] :
            a \in SeqsUpTo(AssigneeShapes(MaxTasks), MaxRows)}
    \cup {[Full EXCEPT !.labels = l] : l \in SeqsUpTo(SrcTasks(MaxTasks), MaxRows)}
    \cup {[Full EXCEPT !.comments = c] : c \in SeqsUpTo(SrcTasks(MaxTasks), MaxRows)}

SourceProjects ==
    {[c EXCEPT !.background = b] : c \in ProjectShapes, b \in BackgroundShapes}
    \cup TaskDependentShapes

\* The tables holding source project c. Every table that is queried by
\* project id or by task id also holds a row of project 2.
MakeDB(c) ==
    [project |->
        <<[id |-> 1, namespace_id |-> 1, owner_id |-> 2, identifier |-> "SRC",
           background_file_id |-> c.background.bg],
          [id |-> 2, namespace_id |-> 1, owner_id |-> 2, identifier |-> "OTHER",
           background_file_id |-> 0]>>,
     bucket |->
        <<[id |-> 2, project_id |-> 2]>>
        \o [i \in 1..c.buckets |-> [id |-> i + 2, project_id |-> 1]],
     task |->
        <<[id |-> 1, project_id |-> 2, bucket_id |-> 2, uid |-> "uid"]>>
        \o [i \in 1..Len(c.tasks) |->
              [id |-> i + 1, project_id |-> 1, bucket_id |-> c.tasks[i], uid |-> "uid"]],
     attachment |->
        <<[id |-> 1, task_id |-> 1, file_id |-> 1]>>
        \o [i \in 1..Len(c.attachments) |->
              [id |-> i + 1, task_id |-> c.attachments[i].task,
               file_id |-> c.attachments[i].file]],
     label_task |->
        <<[id |-> 1, task_id |-> 1, label_id |-> 1]>>
        \o [i \in 1..Len(c.labels) |->
              [id |-> i + 1, task_id |-> c.labels[i], label_id |-> 1]],
     assignee |->
        <<[id |-> 1, task_id |-> 1, user_id |-> 2]>>
        \o [i \in 1..Len(c.assignees) |->
              [id |-> i + 1, task_id |-> c.assignees[i].task,
               user_id |-> c.assignees[i].user]],
     comment |->
        <<[id |-> 1, task_id |-> 1]>>
        \o [i \in 1..Len(c.comments) |-> [id |-> i + 1, task_id |-> c.comments[i]]],
     relation |->
        [i \in 1..Len(c.relations) |->
              [id |-> i, task_id |-> c.relations[i].task,
               other_task_id |-> c.relations[i].other]],
     user |->
        <<[id |-> 1, project_id |-> 2, user_id |-> 2]>>
        \o [i \in 1..c.users |-> [id |-> i + 1, project_id |-> 1, user_id |-> i + 1]],
     team |->
        <<[id |-> 1, project_id |-> 2, team_id |-> 1]>>
        \o [i \in 1..c.teams |-> [id |-> i + 1, project_id |-> 1, team_id |-> i]],
     link |->
        <<[id |-> 1, project_id |-> 2, hash |-> 1]>>
        \o [i \in 1..c.shares |-> [id |-> i + 1, project_id |-> 1, hash |-> i + 1]],
     unsplash |->
        IF c.background.unsplash THEN <<[id |-> 1, file_id |-> c.background.bg]>>
        ELSE <<>>]

Init ==
    /\ \E c \in SourceProjects : db0 = MakeDB(c)
    /\ db = db0
    /\ pc = "init"
    /\ err = ""
    /\ failedAt = ""
    /\ gate = [read |-> "unasked", nsCheck |-> "unasked", canCreate |-> FALSE, err |-> ""]
    /\ ld = [ProjectID |-> 1, NamespaceID |-> 2, Project |-> ZeroProject]
    /\ store = OrigStore
    /\ open = {}
    /\ bucketMap = EmptyMap
    /\ taskMap = EmptyMap
    /\ oldTaskIDs = <<>>
    /\ todo = <<>>
    /\ file = 0
    /\ upErr = ""

----------------------------------------------------------------------------
\* Returning from Create: the deferred close of the background file runs.
ReturnWith(e, handles) ==
    /\ pc' = IF e = "" THEN "done" ELSE "failed"
    /\ err' = e
    /\ failedAt' = IF e = "" THEN "" ELSE pc
    /\ open' = {h \in handles : h[1] # "background"}

Return(e) == ReturnWith(e, open)

\* The outcomes of a capability check: (true, nil), (false, nil), (false, err).
CheckOutcomes == {"allow", "deny", "error"}

\* Project.CanRead: loads the project it is asked about when it allows.
ProjectCanRead(tables, id, outcome) ==
    [project |->
        IF outcome = "allow" /\ \E p \in Rows(tables.project) : p.id = id
        THEN CHOOSE p \in Rows(tables.project) : p.id = id
        ELSE [ZeroProject EXCEPT !.id = id],
     can |-> outcome = "allow",
     err |-> IF outcome = "error" THEN "ErrCheck" ELSE ""]

\* Project.CanCreate: asks whether the actor may write to the namespace.
ProjectCanCreate(outcome) ==
    [can |-> outcome = "allow", err |-> IF outcome = "error" THEN "ErrCheck" ELSE ""]

\* CanCreate without the early return of line 46-48.
CanCreate_IgnoreRead(l, tables, read, create) ==
    LET r == ProjectCanRead(tables, l.ProjectID, read)
        c == ProjectCanCreate(create)
    IN  [ld |-> [l EXCEPT !.Project = [r.project EXCEPT !.namespace_id = l.NamespaceID]],
         canCreate |-> c.can, err |-> c.err, nsCheck |-> create]

\* ProjectDuplicate.CanCreate
CanCreate(l, tables, read, create) ==
    LET r == ProjectCanRead(tables, l.ProjectID, read)
        c == ProjectCanCreate(create)
    IN  IF r.err # "" \/ ~r.can
        THEN [ld |-> [l EXCEPT !.Project = r.project],
              canCreate |-> r.can, err |-> r.err, nsCheck |-> "unasked"]
        ELSE [ld |-> [l EXCEPT !.Project = [r.project EXCEPT !.namespace_id = l.NamespaceID]],
              canCreate |-> c.can, err |-> c.err, nsCheck |-> create]

\* The handler asks CanCreate and calls Create only on (true, nil).
CanCreateStep ==
    /\ pc = "init"
    /\ \E read \in CheckOutcomes, create \in CheckOutcomes :
          LET r == CanCreate(ld, db, read, create)
          IN  /\ gate' = [read |-> read, nsCheck |-> r.nsCheck,
                          canCreate |-> r.canCreate, err |-> r.err]
              /\ ld' = r.ld
              /\ pc' = IF r.canCreate /\ r.err = "" THEN "create" ELSE "denied"
    /\ UNCHANGED <<err, failedAt, db, db0, store, open, bucketMap, taskMap, oldTaskIDs,
                   todo, file, upErr>>

\* CreateProject: inserts the project and gives it its identity and a
\* generated identifier; an error return has inserted nothing.
CreateProject(tables, p, outcome) ==
    IF outcome = "ok"
    THEN [db |-> [tables EXCEPT !.project =
                    Insert(@, [p EXCEPT !.identifier = "GENERATED"])],
          project |-> [p EXCEPT !.id = NextID(tables.project),
                                !.identifier = "GENERATED"],
          err |-> ""]
    ELSE [db |-> tables, project |-> p, err |-> outcome]

IsErrProjectIdentifierIsNotUnique(e) == e = "ErrProjectIdentifierIsNotUnique"

\* Create, lines 75-86
CreateProjectStep ==
    /\ pc = "create"
    /\ \E outcome \in {"ok", "ErrProjectIdentifierIsNotUnique", "ErrDB"} :
          LET p == [ld.Project EXCEPT !.id = 0, !.identifier = "",
                                      !.owner_id = Doer.id]
              r == CreateProject(db, p, outcome)
          IN  IF r.err # "" /\ ~IsErrProjectIdentifierIsNotUnique(r.err)
              THEN /\ Return(r.err)
                   /\ ld' = [ld EXCEPT !.Project = r.project]
                   /\ db' = r.db
              ELSE /\ pc' = "loadBuckets"
                   /\ ld' = [ld EXCEPT !.Project = [r.project EXCEPT !.identifier =
                                IF r.err # "" THEN "" ELSE @]]
                   /\ db' = r.db
                   /\ UNCHANGED <<err, failedAt, open>>
    /\ UNCHANGED <<gate, db0, store, bucketMap, taskMap, oldTaskIDs, todo, file, upErr>>

\* Create, lines 93-98
LoadBuckets ==
    /\ pc = "loadBuckets"
    /\ \E ok \in BOOLEAN :
          IF ok
          THEN /\ todo' = SelectSeq(db.bucket, LAMBDA b : b.project_id = ld.ProjectID)
               /\ bucketMap' = EmptyMap
               /\ pc' = "buckets"
               /\ UNCHANGED <<err, failedAt, open>>
          ELSE /\ Return("ErrDB")
               /\ UNCHANGED <<todo, bucketMap>>
    /\ UNCHANGED <<gate, ld, db, db0, store, taskMap, oldTaskIDs, file, upErr>>

\* The bucket copy without line 102.
NewBucket_KeepProject(b, projectID) == [b EXCEPT !.id = 0]

\* Create, lines 100-102
NewBucket(b, projectID) == [b EXCEPT !.id = 0, !.project_id = projectID]

\* Create, lines 99-107: one pass of the loop
DupBucket ==
    /\ pc = "buckets"
    /\ todo # <<>>
    /\ \E ok \in BOOLEAN :
          IF ok
          THEN /\ db' = [db EXCEPT !.bucket = Insert(@, NewBucket(Head(todo), ld.Project.id))]
               /\ bucketMap' = MapPut(bucketMap, Head(todo).id, NextID(db.bucket))
               /\ todo' = Tail(todo)
               /\ UNCHANGED <<pc, err, failedAt, open>>
          ELSE /\ Return("ErrDB")
               /\ UNCHANGED <<db, bucketMap, todo>>
    /\ UNCHANGED <<gate, ld, db0, store, taskMap, oldTaskIDs, file, upErr>>

\* duplicateTasks, lines 207-220
LoadTasks ==
    /\ pc = "buckets"
    /\ todo = <<>>
    /\ \E ok \in BOOLEAN :
          IF ok
          THEN LET tasks == SelectSeq(db.task, LAMBDA t : t.project_id = ld.ProjectID)
               IN  /\ todo' = tasks
                   /\ taskMap' = EmptyMap
                   /\ oldTaskIDs' = <<>>
                   /\ pc' = IF Len(tasks) = 0 THEN "background" ELSE "tasks"
                   /\ UNCHANGED <<err, failedAt, open>>
          ELSE /\ Return("ErrDB")
               /\ UNCHANGED <<todo, taskMap, oldTaskIDs>>
    /\ UNCHANGED <<gate, ld, db, db0, store, bucketMap, file, upErr>>

\* The task copy without line 225.
NewTask_KeepBucket(t, projectID, bm) ==
    [t EXCEPT !.id = 0, !.project_id = projectID, !.uid = ""]

\* duplicateTasks, lines 222-226
NewTask(t, projectID, bm) ==
    [t EXCEPT !.id = 0, !.project_id = projectID,
              !.bucket_id = MapGet(bm, t.bucket_id), !.uid = ""]

\* duplicateTasks, lines 221-233: one pass of the loop
DupTask ==
    /\ pc = "tasks"
    /\ todo # <<>>
    /\ \E ok \in BOOLEAN :
          IF ok
          THEN /\ db' = [db EXCEPT !.task = Insert(@, NewTask(Head(todo), ld.Project.id, bucketMap))]
               /\ taskMap' = MapPut(taskMap, Head(todo).id, NextID(db.task))
               /\ oldTaskIDs' = Append(oldTaskIDs, Head(todo).id)
               /\ todo' = Tail(todo)
               /\ UNCHANGED <<pc, err, failedAt, open>>
          ELSE /\ Return("ErrDB")
               /\ UNCHANGED <<db, taskMap, oldTaskIDs, todo>>
    /\ UNCHANGED <<gate, ld, db0, store, bucketMap, file, upErr>>

InIDs(ids, id) == \E i \in DOMAIN ids : ids[i] = id

\* duplicateTasks, lines 240-243
LoadAttachments ==
    /\ pc = "tasks"
    /\ todo = <<>>
    /\ \E ok \in BOOLEAN :
          IF ok
          THEN /\ todo' = SelectSeq(db.attachment, LAMBDA a : InIDs(oldTaskIDs, a.task_id))
               /\ pc' = "attachments"
               /\ UNCHANGED <<err, failedAt, open>>
          ELSE /\ Return("ErrDB")
               /\ UNCHANGED todo
    /\ UNCHANGED <<gate, ld, db, db0, store, bucketMap, taskMap, oldTaskIDs, file, upErr>>

\* files.File.LoadFileMetaByID: the error it returns ("" is nil).
LoadFileMetaByID(st, id, fault) ==
    IF id \notin DOMAIN st THEN "ErrFileDoesNotExist"
    ELSE IF fault THEN "ErrDB" ELSE ""

IsErrFileDoesNotExist(e) == e = "ErrFileDoesNotExist"

\* files.Create: stores the content under a new file identity. It is given
\* no session: what it writes is outside the caller's transaction.
NextFileID(st) == 1 + Max({0} \cup DOMAIN st)

FilesCreate(st, content) == MapPut(st, NextFileID(st), content)

\* Lines 255-261 without the IsErrFileDoesNotExist branch.
AttachmentMetaOutcome_NeverSkip(e) == IF e = "" THEN "load" ELSE "fail"

\* duplicateTasks, lines 255-261: what the metadata load's error leads to
AttachmentMetaOutcome(e) ==
    IF e = "" THEN "load"
    ELSE IF IsErrFileDoesNotExist(e) THEN "skip" ELSE "fail"

\* duplicateTasks, lines 246-249
NewAttachmentRow(a, tm) == [a EXCEPT !.id = 0, !.task_id = MapGet(tm, a.task_id)]

\* duplicateTasks, lines 245-276: one pass of the loop
DupAttachment ==
    /\ pc = "attachments"
    /\ todo # <<>>
    /\ \E outcome \in {"ok", "ErrLoadMeta", "ErrLoadFile", "ErrCreateFile", "ErrInsert"} :
          LET a == Head(todo)
              exists == a.task_id \in DOMAIN taskMap
              metaErr == LoadFileMetaByID(store, a.file_id, outcome = "ErrLoadMeta")
              meta == AttachmentMetaOutcome(metaErr)
              handle == <<"attachment", a.id>>
              newFile == NextFileID(store)
              row == [NewAttachmentRow(a, taskMap) EXCEPT !.file_id = newFile]
          IN  IF ~exists \/ meta = "skip"
              THEN /\ todo' = Tail(todo)
                   /\ UNCHANGED <<pc, err, failedAt, open, db, store>>
              ELSE IF meta = "fail"
              THEN /\ Return(metaErr)
                   /\ UNCHANGED <<todo, db, store>>
              ELSE IF outcome = "ErrLoadFile"
              THEN /\ Return("ErrLoadFile")
                   /\ UNCHANGED <<todo, db, store>>
              ELSE IF outcome = "ErrCreateFile"
              THEN /\ ReturnWith("ErrCreateFile", open \cup {handle})
                   /\ UNCHANGED <<todo, db, store>>
              ELSE IF outcome = "ErrInsert"
              THEN /\ ReturnWith("ErrDB", open \cup {handle})
                   /\ store' = FilesCreate(store, store[a.file_id])
                   /\ UNCHANGED <<todo, db>>
              ELSE /\ store' = FilesCreate(store, store[a.file_id])
                   /\ db' = [db EXCEPT !.attachment = Insert(@, row)]
                   /\ todo' = Tail(todo)
                   /\ UNCHANGED <<pc, err, failedAt, open>>
    /\ UNCHANGED <<gate, ld, db0, bucketMap, taskMap, oldTaskIDs, file, upErr>>

\* duplicateTasks, lines 281-285
LoadLabelTasks ==
    /\ pc = "attachments"
    /\ todo = <<>>
    /\ \E ok \in BOOLEAN :
          IF ok
          THEN /\ todo' = SelectSeq(db.label_task, LAMBDA r : InIDs(oldTaskIDs, r.task_id))
               /\ pc' = "labels"
               /\ UNCHANGED <<err, failedAt, open>>
          ELSE /\ Return("ErrDB")
               /\ UNCHANGED todo
    /\ UNCHANGED <<gate, ld, db, db0, store, bucketMap, taskMap, oldTaskIDs, file, upErr>>

\* duplicateTasks, lines 288-289
NewLabelTask(lt, tm) == [lt EXCEPT !.id = 0, !.task_id = MapGet(tm, lt.task_id)]

\* duplicateTasks, lines 287-293: one pass of the loop
DupLabelTask ==
    /\ pc = "labels"
    /\ todo # <<>>
    /\ \E ok \in BOOLEAN :
          IF ok
          THEN /\ db' = [db EXCEPT !.label_task = Insert(@, NewLabelTask(Head(todo), taskMap))]
               /\ todo' = Tail(todo)
               /\ UNCHANGED <<pc, err, failedAt, open>>
          ELSE /\ Return("ErrDB")
               /\ UNCHANGED <<db, todo>>
    /\ UNCHANGED <<gate, ld, db0, store, bucketMap, taskMap, oldTaskIDs, file, upErr>>

\* duplicateTasks, lines 299-303
LoadAssignees ==
    /\ pc = "labels"
    /\ todo = <<>>
    /\ \E ok \in BOOLEAN :
          IF ok
          THEN /\ todo' = SelectSeq(db.assignee, LAMBDA r : InIDs(oldTaskIDs, r.task_id))
               /\ pc' = "assignees"
               /\ UNCHANGED <<err, failedAt, open>>
          ELSE /\ Return("ErrDB")
               /\ UNCHANGED todo
    /\ UNCHANGED <<gate, ld, db, db0, store, bucketMap, taskMap, oldTaskIDs, file, upErr>>

\* Task.addNewAssigneeByID: the error it returns ("" is nil).
AddNewAssigneeErr(user, fault) ==
    IF ~HasAccess(user) THEN "ErrUserDoesNotHaveAccessToProject"
    ELSE IF fault THEN "ErrDB" ELSE ""

IsErrUserDoesNotHaveAccessToProject(e) == e = "ErrUserDoesNotHaveAccessToProject"

\* duplicateTasks, lines 305-308
NewAssigneeTask(a, tm) == MapGet(tm, a.task_id)

\* duplicateTasks, lines 304-315: one pass of the loop
DupAssignee ==
    /\ pc = "assignees"
    /\ todo # <<>>
    /\ \E fault \in BOOLEAN :
          LET a == Head(todo)
              e == AddNewAssigneeErr(a.user_id, fault)
          IN  IF e = ""
              THEN /\ db' = [db EXCEPT !.assignee =
                                Insert(@, [id |-> 0, task_id |-> NewAssigneeTask(a, taskMap),
                                           user_id |-> a.user_id])]
                   /\ todo' = Tail(todo)
                   /\ UNCHANGED <<pc, err, failedAt, open>>
              ELSE IF IsErrUserDoesNotHaveAccessToProject(e)
              THEN /\ todo' = Tail(todo)
                   /\ UNCHANGED <<pc, err, failedAt, open, db>>
              ELSE /\ Return(e)
                   /\ UNCHANGED <<db, todo>>
    /\ UNCHANGED <<gate, ld, db0, store, bucketMap, taskMap, oldTaskIDs, file, upErr>>

\* duplicateTasks, lines 320-324
LoadComments ==
    /\ pc = "assignees"
    /\ todo = <<>>
    /\ \E ok \in BOOLEAN :
          IF ok
          THEN /\ todo' = SelectSeq(db.comment, LAMBDA r : InIDs(oldTaskIDs, r.task_id))
               /\ pc' = "comments"
               /\ UNCHANGED <<err, failedAt, open>>
          ELSE /\ Return("ErrDB")
               /\ UNCHANGED todo
    /\ UNCHANGED <<gate, ld, db, db0, store, bucketMap, taskMap, oldTaskIDs, file, upErr>>

\* duplicateTasks, lines 326-327
NewComment(c, tm) == [c EXCEPT !.id = 0, !.task_id = MapGet(tm, c.task_id)]

\* duplicateTasks, lines 325-331: one pass of the loop
DupComment ==
    /\ pc = "comments"
    /\ todo # <<>>
    /\ \E ok \in BOOLEAN :
          IF ok
          THEN /\ db' = [db EXCEPT !.comment = Insert(@, NewComment(Head(todo), taskMap))]
               /\ todo' = Tail(todo)
               /\ UNCHANGED <<pc, err, failedAt, open>>
          ELSE /\ Return("ErrDB")
               /\ UNCHANGED <<db, todo>>
    /\ UNCHANGED <<gate, ld, db0, store, bucketMap, taskMap, oldTaskIDs, file, upErr>>

\* duplicateTasks, lines 338-342
LoadRelations ==
    /\ pc = "comments"
    /\ todo = <<>>
    /\ \E ok \in BOOLEAN :
          IF ok
          THEN /\ todo' = SelectSeq(db.relation, LAMBDA r : InIDs(oldTaskIDs, r.task_id))
               /\ pc' = "relations"
               /\ UNCHANGED <<err, failedAt, open>>
          ELSE /\ Return("ErrDB")
               /\ UNCHANGED todo
    /\ UNCHANGED <<gate, ld, db, db0, store, bucketMap, taskMap, oldTaskIDs, file, upErr>>

\* Lines 344-347 without the skip.
RelationCopied_Always(r, tm) == TRUE

\* duplicateTasks, lines 344-347
RelationCopied(r, tm) == r.other_task_id \in DOMAIN tm

\* duplicateTasks, lines 348-350
NewRelation(r, tm) ==
    [r EXCEPT !.id = 0, !.other_task_id = MapGet(tm, r.other_task_id),
              !.task_id = MapGet(tm, r.task_id)]

\* duplicateTasks, lines 343-354: one pass of the loop
DupRelation ==
    /\ pc = "relations"
    /\ todo # <<>>
    /\ \E ok \in BOOLEAN :
          IF ~RelationCopied(Head(todo), taskMap)
          THEN /\ todo' = Tail(todo)
               /\ UNCHANGED <<pc, err, failedAt, open, db>>
          ELSE IF ok
          THEN /\ db' = [db EXCEPT !.relation = Insert(@, NewRelation(Head(todo), taskMap))]
               /\ todo' = Tail(todo)
               /\ UNCHANGED <<pc, err, failedAt, open>>
          ELSE /\ Return("ErrDB")
               /\ UNCHANGED <<db, todo>>
    /\ UNCHANGED <<gate, ld, db0, store, bucketMap, taskMap, oldTaskIDs, file, upErr>>

\* duplicateTasks, line 358, and Create, lines 111-114
EndTasks ==
    /\ pc = "relations"
    /\ todo = <<>>
    /\ pc' = "background"
    /\ UNCHANGED <<err, failedAt, gate, ld, db, db0, store, open, bucketMap, taskMap,
                   oldTaskIDs, todo, file, upErr>>

\* Create, lines 117-128: load the background file and defer its close
BackgroundLoad ==
    /\ pc = "background"
    /\ \E outcome \in {"ok", "ErrLoadMeta", "ErrLoadFile"} :
          LET id == ld.Project.background_file_id
              metaErr == LoadFileMetaByID(store, id, outcome = "ErrLoadMeta")
          IN  IF id = 0
              THEN /\ pc' = "loadUsers"
                   /\ UNCHANGED <<err, failedAt, open>>
              ELSE IF metaErr # ""
              THEN Return(metaErr)
              ELSE IF outcome = "ErrLoadFile"
              THEN Return("ErrLoadFile")
              ELSE /\ pc' = "backgroundCreate"
                   /\ open' = open \cup {<<"background", id>>}
                   /\ UNCHANGED <<err, failedAt>>
    /\ UNCHANGED <<gate, ld, db, db0, store, bucketMap, taskMap, oldTaskIDs,
                   todo, file, upErr>>

\* Create, lines 130-133
BackgroundCreate ==
    /\ pc = "backgroundCreate"
    /\ \E ok \in BOOLEAN :
          IF ok
          THEN /\ store' = FilesCreate(store, store[ld.Project.background_file_id])
               /\ file' = NextFileID(store)
               /\ pc' = "backgroundUnsplash"
               /\ UNCHANGED <<err, failedAt, open>>
          ELSE /\ Return("ErrCreateFile")
               /\ UNCHANGED <<store, file>>
    /\ UNCHANGED <<gate, ld, db, db0, bucketMap, taskMap, oldTaskIDs, todo, upErr>>

\* GetUnsplashPhotoByFileID: the attribution record of a file (at most one,
\* as a sequence) and the error: a file without one is reported as
\* ErrFileIsNotUnsplashFile.
GetUnsplashPhotoByFileID(tables, fileID, fault) ==
    LET found == SelectSeq(tables.unsplash, LAMBDA u : u.file_id = fileID)
    IN  IF fault THEN [up |-> <<>>, err |-> "ErrDB"]
        ELSE IF found = <<>> THEN [up |-> <<>>, err |-> "ErrFileIsNotUnsplashFile"]
        ELSE [up |-> <<Head(found)>>, err |-> ""]

IsErrFileIsNotUnsplashFile(e) == e = "ErrFileIsNotUnsplashFile"

\* Create, line 137: the lookup errors that make Create return
UnsplashLookupFatal(e) == e # "" /\ IsErrFileIsNotUnsplashFile(e)

\* Create, lines 136-146
BackgroundUnsplash ==
    /\ pc = "backgroundUnsplash"
    /\ \E outcome \in {"ok", "ErrLookup", "ErrSave"} :
          LET r == GetUnsplashPhotoByFileID(db, ld.Project.background_file_id,
                                            outcome = "ErrLookup")
          IN  /\ upErr' = r.err
              /\ IF UnsplashLookupFatal(r.err)
                 THEN /\ Return(r.err)
                      /\ UNCHANGED db
                 ELSE IF r.up # <<>> /\ outcome = "ErrSave"
                 THEN /\ Return("ErrDB")
                      /\ UNCHANGED db
                 ELSE /\ db' = IF r.up # <<>>
                               THEN [db EXCEPT !.unsplash =
                                      Insert(@, [r.up[1] EXCEPT !.id = 0, !.file_id = file])]
                               ELSE db
                      /\ pc' = "backgroundSet"
                      /\ UNCHANGED <<err, failedAt, open>>
    /\ UNCHANGED <<gate, ld, db0, store, bucketMap, taskMap, oldTaskIDs, todo, file>>

\* SetProjectBackground: points the project row at the file.
SetProjectBackground(tables, projectID, fileID) ==
    [tables EXCEPT !.project =
        [i \in DOMAIN @ |-> IF @[i].id = projectID
                            THEN [@[i] EXCEPT !.background_file_id = fileID]
                            ELSE @[i]]]

\* Create, lines 148-153
BackgroundSet ==
    /\ pc = "backgroundSet"
    /\ \E ok \in BOOLEAN :
          IF ok
          THEN /\ db' = SetProjectBackground(db, ld.Project.id, file)
               /\ pc' = "loadUsers"
               /\ UNCHANGED <<err, failedAt, open>>
          ELSE /\ Return("ErrDB")
               /\ UNCHANGED db
    /\ UNCHANGED <<gate, ld, db0, store, bucketMap, taskMap, oldTaskIDs, todo,
                   file, upErr>>

\* Create, lines 157-161
LoadUsers ==
    /\ pc = "loadUsers"
    /\ \E ok \in BOOLEAN :
          IF ok
          THEN /\ todo' = SelectSeq(db.user, LAMBDA u : u.project_id = ld.ProjectID)
               /\ pc' = "users"
               /\ UNCHANGED <<err, failedAt, open>>
          ELSE /\ Return("ErrDB")
               /\ UNCHANGED todo
    /\ UNCHANGED <<gate, ld, db, db0, store, bucketMap, taskMap, oldTaskIDs, file, upErr>>

\* Create, lines 163-164 and 178-179: a user right or a team right
NewProjectRight(u, projectID) == [u EXCEPT !.id = 0, !.project_id = projectID]

\* Create, lines 162-168: one pass of the loop
DupUser ==
    /\ pc = "users"
    /\ todo # <<>>
    /\ \E ok \in BOOLEAN :
          IF ok
          THEN /\ db' = [db EXCEPT !.user = Insert(@, NewProjectRight(Head(todo), ld.Project.id))]
               /\ todo' = Tail(todo)
               /\ UNCHANGED <<pc, err, failedAt, open>>
          ELSE /\ Return("ErrDB")
               /\ UNCHANGED <<db, todo>>
    /\ UNCHANGED <<gate, ld, db0, store, bucketMap, taskMap, oldTaskIDs, file, upErr>>

\* Create, lines 172-176
LoadTeams ==
    /\ pc = "users"
    /\ todo = <<>>
    /\ \E ok \in BOOLEAN :
          IF ok
          THEN /\ todo' = SelectSeq(db.team, LAMBDA t : t.project_id = ld.ProjectID)
               /\ pc' = "teams"
               /\ UNCHANGED <<err, failedAt, open>>
          ELSE /\ Return("ErrDB")
               /\ UNCHANGED todo
    /\ UNCHANGED <<gate, ld, db, db0, store, bucketMap, taskMap, oldTaskIDs, file, upErr>>

\* Create, lines 177-183: one pass of the loop
DupTeam ==
    /\ pc = "teams"
    /\ todo # <<>>
    /\ \E ok \in BOOLEAN :
          IF ok
          THEN /\ db' = [db EXCEPT !.team = Insert(@, NewProjectRight(Head(todo), ld.Project.id))]
               /\ todo' = Tail(todo)
               /\ UNCHANGED <<pc, err, failedAt, open>>
          ELSE /\ Return("ErrDB")
               /\ UNCHANGED <<db, todo>>
    /\ UNCHANGED <<gate, ld, db0, store, bucketMap, taskMap, oldTaskIDs, file, upErr>>

\* Create, lines 186-190
LoadLinkShares ==
    /\ pc = "teams"
    /\ todo = <<>>
    /\ \E ok \in BOOLEAN :
          IF ok
          THEN /\ todo' = SelectSeq(db.link, LAMBDA l : l.project_id = ld.ProjectID)
               /\ pc' = "linkShares"
               /\ UNCHANGED <<err, failedAt, open>>
          ELSE /\ Return("ErrDB")
               /\ UNCHANGED todo
    /\ UNCHANGED <<gate, ld, db, db0, store, bucketMap, taskMap, oldTaskIDs, file, upErr>>

\* utils.MakeRandomString: the strings a call may return. A random
\* 40-character string is taken to be one no share holds yet.
MakeRandomString(tables) ==
    (1..(Len(tables.link) + 2)) \ {tables.link[i].hash : i \in DOMAIN tables.link}

\* The link share copy without line 194.
NewLinkShare_KeepHash(share, projectID, hash) ==
    [share EXCEPT !.id = 0, !.project_id = projectID]

\* Create, lines 192-194
NewLinkShare(share, projectID, hash) ==
    [share EXCEPT !.id = 0, !.project_id = projectID, !.hash = hash]

\* Create, lines 191-198: one pass of the loop
DupLinkShare ==
    /\ pc = "linkShares"
    /\ todo # <<>>
    /\ \E ok \in BOOLEAN, hash \in MakeRandomString(db) :
          IF ok
          THEN /\ db' = [db EXCEPT !.link =
                            Insert(@, NewLinkShare(Head(todo), ld.Project.id, hash))]
               /\ todo' = Tail(todo)
               /\ UNCHANGED <<pc, err, failedAt, open>>
          ELSE /\ Return("ErrDB")
               /\ UNCHANGED <<db, todo>>
    /\ UNCHANGED <<gate, ld, db0, store, bucketMap, taskMap, oldTaskIDs, file, upErr>>

\* Create, line 202
Finish ==
    /\ pc = "linkShares"
    /\ todo = <<>>
    /\ Return("")
    /\ UNCHANGED <<gate, ld, db, db0, store, bucketMap, taskMap, oldTaskIDs,
                   todo, file, upErr>>

\* The caller rolls the session back when Create returned an error: the
\* tables are the committed ones again. The file store is not part of the
\* session.
Rollback ==
    /\ pc = "failed"
    /\ pc' = "rolledBack"
    /\ db' = db0
    /\ UNCHANGED <<err, failedAt, gate, ld, db0, store, open, bucketMap, taskMap,
                   oldTaskIDs, todo, file, upErr>>

Next ==
    \/ CanCreateStep
    \/ CreateProjectStep
    \/ LoadBuckets
    \/ DupBucket
    \/ LoadTasks
    \/ DupTask
    \/ LoadAttachments
    \/ DupAttachment
    \/ LoadLabelTasks
    \/ DupLabelTask
    \/ LoadAssignees
    \/ DupAssignee
    \/ LoadComments
    \/ DupComment
    \/ LoadRelations
    \/ DupRelation
    \/ EndTasks
    \/ BackgroundLoad
    \/ BackgroundCreate
    \/ BackgroundUnsplash
    \/ BackgroundSet
    \/ LoadUsers
    \/ DupUser
    \/ LoadTeams
    \/ DupTeam
    \/ LoadLinkShares
    \/ DupLinkShare
    \/ Finish
    \/ Rollback

Spec == Init /\ [][Next]_vars

----------------------------------------------------------------------------
\* The source project and its copy, as the tables show them.

SrcRows(t) == SelectSeq(db0[t], LAMBDA r : r.project_id = ld.ProjectID)

DstRows(t) == SelectSeq(db[t], LAMBDA r : r.project_id = ld.Project.id)

SrcBucketIDs == Ids(SrcRows("bucket"))

SrcTaskIDs == Ids(SrcRows("task"))

\* The rows of table t whose task is a task of the source project.
SrcTaskRows(t) == SelectSeq(db0[t], LAMBDA r : r.task_id \in SrcTaskIDs)

\* The rows the session has inserted into table t.
Added(t) == SubSeq(db[t], Len(db0[t]) + 1, Len(db[t]))

Returned == pc \in {"done", "failed", "rolledBack"}

Failed == pc \in {"failed", "rolledBack"}

\* m sends the ids of src one-to-one to the ids of dst, in order.
CopiesInOrder(m, src, dst) ==
    /\ Len(dst) = Len(src)
    /\ DOMAIN m = Ids(src)
    /\ \A i \in DOMAIN src : m[src[i].id] = dst[i].id
    /\ Ids(src) \cap Ids(dst) = {}

----------------------------------------------------------------------------
\* C1: CanCreate returns true only when the read check and the namespace
\* create check both allow; when the read check denies or errors the
\* namespace check is not consulted; Create runs only after (true, nil);
\* and a denied or failed check has written no row and no file.
C1_CanCreateGate ==
    pc # "init" =>
        /\ gate.canCreate => gate.read = "allow" /\ gate.nsCheck = "allow"
        /\ gate.read # "allow" => gate.nsCheck = "unasked"
        /\ pc # "denied" => gate.canCreate /\ gate.err = ""
        /\ pc = "denied" => db = db0 /\ store = OrigStore

C1_Witness ==
    /\ pc = "denied"
    /\ gate.read = "deny"
    /\ gate.nsCheck = "unasked"
    /\ ~gate.canCreate

\* C2: after a successful duplication the destination has one task per
\* source task, in order, and each one's bucket is the copy of the source
\* task's bucket, or 0 when that bucket is not a bucket of the source
\* project.
C2_TasksAndBuckets ==
    pc = "done" =>
        LET src == SrcRows("task")
            dst == DstRows("task")
        IN  /\ Len(dst) = Len(src)
            /\ CopiesInOrder(bucketMap, SrcRows("bucket"), DstRows("bucket"))
            /\ \A i \in DOMAIN src :
                  dst[i].bucket_id =
                     IF src[i].bucket_id \in SrcBucketIDs
                     THEN bucketMap[src[i].bucket_id] ELSE 0

C2_Witness ==
    /\ pc = "done"
    /\ Len(DstRows("task")) = 2
    /\ \E i, j \in DOMAIN SrcRows("task") :
          /\ SrcRows("task")[i].bucket_id \in SrcBucketIDs
          /\ DstRows("task")[i].bucket_id \in Ids(DstRows("bucket"))
          /\ SrcRows("task")[j].bucket_id = 1
          /\ DstRows("task")[j].bucket_id = 0

\* C3: after a successful duplication the relations inserted are, in
\* order, the source relations whose two tasks are both tasks of the source
\* project, each with both ends replaced by the new task ids; a relation
\* whose other task is outside the source project has no copy.
C3_Relations ==
    pc = "done" =>
        LET inside == SelectSeq(SrcTaskRows("relation"),
                                LAMBDA r : r.other_task_id \in SrcTaskIDs)
            new == Added("relation")
        IN  /\ Len(new) = Len(inside)
            /\ SrcTaskIDs # {} => CopiesInOrder(taskMap, SrcRows("task"), DstRows("task"))
            /\ \A i \in DOMAIN inside :
                  /\ new[i].task_id = taskMap[inside[i].task_id]
                  /\ new[i].other_task_id = taskMap[inside[i].other_task_id]

C3_Witness ==
    /\ pc = "done"
    /\ \E r \in Rows(SrcTaskRows("relation")) : r.other_task_id \notin SrcTaskIDs
    /\ \E r \in Rows(SrcTaskRows("relation")) : r.other_task_id \in SrcTaskIDs
    /\ Len(Added("relation")) = 1

\* C4: in every state, no row the duplication has inserted holds the source
\* project's id, a source bucket's id or a source task's id.
C4_NoSourceReference ==
    /\ \A t \in {"bucket", "task", "user", "team", "link"} :
          \A r \in Rows(Added(t)) : r.project_id # ld.ProjectID
    /\ \A r \in Rows(Added("task")) : r.bucket_id \notin SrcBucketIDs
    /\ \A t \in {"attachment", "label_task", "assignee", "comment", "relation"} :
          \A r \in Rows(Added(t)) : r.task_id \notin SrcTaskIDs
    /\ \A r \in Rows(Added("relation")) : r.other_task_id \notin SrcTaskIDs

C4_Witness ==
    /\ pc = "done"
    /\ \A t \in {"bucket", "task", "attachment", "label_task", "assignee",
                 "comment", "relation", "user", "team", "link"} : Added(t) # <<>>
    /\ \E r \in Rows(Added("task")) : r.bucket_id # 0

\* C5: an attribution lookup that reports "not an external-image file" does
\* not make the duplication fail, and any other error of the lookup does.
C5_BackgroundErrors ==
    /\ upErr = "ErrFileIsNotUnsplashFile" =>
          ~(Failed /\ failedAt = "backgroundUnsplash")
    /\ upErr = "ErrDB" => Failed /\ failedAt = "backgroundUnsplash"

\* C6: a duplication that succeeded has a destination project with a new,
\* non-zero identity, and every copied bucket, task and share refers to it,
\* this also when project creation reported a non-unique identifier; and a
\* duplication that failed at project creation has written no row.
C6_DestinationProjectExists ==
    /\ pc = "done" =>
          /\ ld.Project.id # 0
          /\ ld.Project.id \in Ids(db.project) \ Ids(db0.project)
          /\ \A t \in {"bucket", "task", "user", "team", "link"} :
                \A r \in Rows(Added(t)) : r.project_id = ld.Project.id
    /\ Failed /\ failedAt = "create" => db = db0

\* C7: when the duplication has returned, on any path, no source file
\* handle is open.
C7_HandlesClosed == Returned => open = {}

\* C8: after a successful duplication the attachments inserted are, in
\* order, the source tasks' attachments whose file has metadata, each on the
\* new task and with a newly created file of the same content; and the
\* attachment loop never fails because a file does not exist.
C8_AttachmentSkip ==
    /\ pc = "done" =>
          LET kept == SelectSeq(SrcTaskRows("attachment"),
                                LAMBDA a : a.file_id \in DOMAIN OrigStore)
              new == Added("attachment")
          IN  /\ Len(new) = Len(kept)
              /\ \A i \in DOMAIN kept :
                    /\ new[i].task_id = taskMap[kept[i].task_id]
                    /\ new[i].file_id \in DOMAIN store \ DOMAIN OrigStore
                    /\ store[new[i].file_id] = OrigStore[kept[i].file_id]
              /\ \A i, j \in DOMAIN new : new[i].file_id = new[j].file_id => i = j
    /\ Failed /\ failedAt = "attachments" => err # "ErrFileDoesNotExist"

C8_Witness ==
    /\ pc = "done"
    /\ Len(SrcTaskRows("attachment")) = 3
    /\ SrcTaskRows("attachment")[1].file_id \in DOMAIN OrigStore
    /\ SrcTaskRows("attachment")[2].file_id \notin DOMAIN OrigStore
    /\ SrcTaskRows("attachment")[3].file_id \in DOMAIN OrigStore
    /\ Len(Added("attachment")) = 2

\* C9: a duplication that failed returned an error, and once the caller
\* has rolled the session back nothing of the duplicate is left: no row
\* and no stored file. (Stated for a failure at any step but the
\* attribution lookup, whose error handling is C5's subject.)
C9_NoPartialState ==
    /\ Failed => err # ""
    /\ pc = "rolledBack" /\ failedAt # "backgroundUnsplash" =>
          db = db0 /\ store = OrigStore

\* C10: after a successful duplication the destination has one link share
\* per source link share, and each one's secret is none that a share held
\* before, so not the secret of the share it was copied from.
C10_LinkShareSecrets ==
    pc = "done" =>
        LET src == SrcRows("link")
            dst == DstRows("link")
        IN  /\ Len(dst) = Len(src)
            /\ \A i \in DOMAIN src :
                  /\ dst[i].hash # src[i].hash
                  /\ dst[i].hash \notin {r.hash : r \in Rows(db0.link)}

C10_Witness ==
    /\ pc = "done"
    /\ Len(SrcRows("link")) = 2
    /\ Len(DstRows("link")) = 2

====
